---- MODULE Spec2Model ----
(***************************************************************************)
(* Model of pkg/asset/installconfig/installconfig.go: the InstallConfig    *)
(* asset, its Generate and Load operations and the file discovery helper   *)
(* fetchInstallConfigFile.                                                 *)
(*                                                                         *)
(* Go pointers are modelled as sequences of length at most one: Nil is the *)
(* nil pointer, Ref(x) a pointer to x.  Go errors are modelled as the      *)
(* chain of their frames, outermost first; the nil error is the empty      *)
(* chain.                                                                  *)
(***************************************************************************)
EXTENDS Integers, Sequences, FiniteSets, TLC

\* ------------------------------------------------------------------ bounds
\* Number of distinct AWS platform values (regions) the platform dependency
\* can carry; the other variants carry one value each.
MaxRegions == 2

\* ---------------------------------------------------------------- pointers
Nil == <<>>
Ref(x) == <<x>>
Deref(p) == p[1]

\* --------------------------------------------------------------- constants
installConfigFilename == "install-config.yaml"
deprecatedInstallConfigFilename == "install-config.yml"

defaultMachineCIDR == "10.0.0.0/16"
defaultServiceCIDR == "172.30.0.0/16"
defaultClusterCIDR == "10.128.0.0/14"
defaultHostSubnetLength == 9

\* libvirt.DefaultMachineCIDR, the machine CIDR of the libvirt platform.
libvirtDefaultMachineCIDR == "libvirt.DefaultMachineCIDR"

PlatformNames == {"AWS", "Libvirt", "None", "OpenStack"}

\* ------------------------------------------------------------------ errors
Frame(msg, arg) == [msg |-> msg, arg |-> arg]

\* errors.Wrap / errors.Wrapf: a new frame in front of the cause.  arg is
\* the value formatted into the message ("" when the message has no verb).
Wrapf(err, msg, arg) == <<Frame(msg, arg)>> \o err

\* The error's text names the file.
References(err, filename) == \E i \in 1..Len(err) : err[i].arg = filename

ErrNotExist(name) == <<Frame("open: no such file or directory", name)>>
ErrIO(name) == <<Frame("open: permission denied", name)>>

\* os.IsNotExist
IsNotExist(err) == Len(err) > 0 /\ err[1].msg = "open: no such file or directory"

\* ------------------------------------------------------ dependency values
Regions == 1..MaxRegions

\* The platform dependency: one pointer field per platform variant.
Platforms == [AWS : {Nil} \cup {Ref(r) : r \in Regions},
              Libvirt : {Nil, Ref(1)},
              None : {Nil, Ref(1)},
              OpenStack : {Nil, Ref(1)}]

\* The values parents.Get fills in.
Parents == [clusterID : {"cluster-id"}, sshPublicKey : {"ssh-rsa key"},
            baseDomain : {"example.com"}, clusterName : {"test-cluster"},
            pullSecret : {"pull-secret"}, platform : Platforms]

Populated(p) == {n \in PlatformNames : p[n] # Nil}

\* ------------------------------------------------------------ Generate
\* The InstallConfig literal assigned to a.Config.
BaseConfig(parents) ==
    [Name |-> parents.clusterName,
     ClusterID |-> parents.clusterID,
     SSHKey |-> parents.sshPublicKey,
     BaseDomain |-> parents.baseDomain,
     Networking |-> [Type |-> "OpenshiftSDN",
                     MachineCIDR |-> defaultMachineCIDR,
                     ServiceCIDR |-> defaultServiceCIDR,
                     ClusterNetworks |->
                         <<[CIDR |-> defaultClusterCIDR,
                            HostSubnetLength |-> defaultHostSubnetLength]>>],
     PullSecret |-> parents.pullSecret,
     Machines |-> <<>>,
     AWS |-> Nil, Libvirt |-> Nil, None |-> Nil, OpenStack |-> Nil]

\* PlatformSwitch with the OpenStack case storing into the None field.
PlatformSwitch_wrongField(config, platform) ==
    IF platform.AWS # Nil THEN
        [panicked |-> FALSE,
         Config |-> [config EXCEPT !.AWS = platform.AWS],
         numberOfMasters |-> 3, numberOfWorkers |-> 3]
    ELSE IF platform.Libvirt # Nil THEN
        [panicked |-> FALSE,
         Config |-> [config EXCEPT !.Libvirt = platform.Libvirt,
                                   !.Networking.MachineCIDR = libvirtDefaultMachineCIDR],
         numberOfMasters |-> 1, numberOfWorkers |-> 1]
    ELSE IF platform.None # Nil THEN
        [panicked |-> FALSE,
         Config |-> [config EXCEPT !.None = platform.None],
         numberOfMasters |-> 3, numberOfWorkers |-> 3]
    ELSE IF platform.OpenStack # Nil THEN
        [panicked |-> FALSE,
         Config |-> [config EXCEPT !.None = platform.OpenStack],
         numberOfMasters |-> 3, numberOfWorkers |-> 3]
    ELSE
        [panicked |-> TRUE, Config |-> config,
         numberOfMasters |-> 3, numberOfWorkers |-> 3]

\* PlatformSwitch with the Libvirt case leaving the worker count at its
\* default.
PlatformSwitch_libvirtWorkers(config, platform) ==
    IF platform.AWS # Nil THEN
        [panicked |-> FALSE,
         Config |-> [config EXCEPT !.AWS = platform.AWS],
         numberOfMasters |-> 3, numberOfWorkers |-> 3]
    ELSE IF platform.Libvirt # Nil THEN
        [panicked |-> FALSE,
         Config |-> [config EXCEPT !.Libvirt = platform.Libvirt,
                                   !.Networking.MachineCIDR = libvirtDefaultMachineCIDR],
         numberOfMasters |-> 1, numberOfWorkers |-> 3]
    ELSE IF platform.None # Nil THEN
        [panicked |-> FALSE,
         Config |-> [config EXCEPT !.None = platform.None],
         numberOfMasters |-> 3, numberOfWorkers |-> 3]
    ELSE IF platform.OpenStack # Nil THEN
        [panicked |-> FALSE,
         Config |-> [config EXCEPT !.OpenStack = platform.OpenStack],
         numberOfMasters |-> 3, numberOfWorkers |-> 3]
    ELSE
        [panicked |-> TRUE, Config |-> config,
         numberOfMasters |-> 3, numberOfWorkers |-> 3]

\* The platform switch: the first populated variant in the order of the
\* cases is copied into the config; none populated panics.
PlatformSwitch(config, platform) ==
    IF platform.AWS # Nil THEN
        [panicked |-> FALSE,
         Config |-> [config EXCEPT !.AWS = platform.AWS],
         numberOfMasters |-> 3, numberOfWorkers |-> 3]
    ELSE IF platform.Libvirt # Nil THEN
        [panicked |-> FALSE,
         Config |-> [config EXCEPT !.Libvirt = platform.Libvirt,
                                   !.Networking.MachineCIDR = libvirtDefaultMachineCIDR],
         numberOfMasters |-> 1, numberOfWorkers |-> 1]
    ELSE IF platform.None # Nil THEN
        [panicked |-> FALSE,
         Config |-> [config EXCEPT !.None = platform.None],
         numberOfMasters |-> 3, numberOfWorkers |-> 3]
    ELSE IF platform.OpenStack # Nil THEN
        [panicked |-> FALSE,
         Config |-> [config EXCEPT !.OpenStack = platform.OpenStack],
         numberOfMasters |-> 3, numberOfWorkers |-> 3]
    ELSE
        [panicked |-> TRUE, Config |-> config,
         numberOfMasters |-> 3, numberOfWorkers |-> 3]

MachinePools(numberOfMasters, numberOfWorkers) ==
    <<[Name |-> "master", Replicas |-> numberOfMasters],
      [Name |-> "worker", Replicas |-> numberOfWorkers]>>

\* ------------------------------------------------------------------ codec
\* yaml.Marshal: the document of the config, or the encoder's error.
Marshal(config, encodeErr) ==
    IF encodeErr = Nil THEN [data |-> <<"yaml", config>>, err |-> Nil]
    ELSE [data |-> <<>>, err |-> encodeErr]

Garbage == <<"not yaml">>

\* yaml.Unmarshal into a zero InstallConfig.
Unmarshal(data) ==
    IF Len(data) = 2 /\ data[1] = "yaml"
    THEN [config |-> data[2], err |-> Nil]
    ELSE [config |-> <<>>, err |-> <<Frame("yaml: cannot unmarshal", "")>>]

EncodeErrs == {Nil, <<Frame("json: unsupported value", "")>>}

\* -------------------------------------------------------------- validator
\* validation.ValidateInstallConfig(...).ToAggregate(): the field errors of
\* the config; the empty list accepts it.  A config must carry exactly one
\* platform sub-configuration.
ValidateInstallConfig(config) ==
    IF Cardinality(Populated(config)) = 1 THEN <<>>
    ELSE <<"platform: must specify exactly one platform">>

ToAggregate(errs) ==
    IF errs = <<>> THEN Nil ELSE <<Frame("field errors", "")>>

\* ------------------------------------------------------------ file fetcher
\* names with the deprecated filename tried first.
names_deprecatedFirst == <<deprecatedInstallConfigFilename, installConfigFilename>>

names == <<installConfigFilename, deprecatedInstallConfigFilename>>

\* Install configs a user may have left in the directory: no platform, one
\* platform, or two platforms filled in.
StoredPlatforms ==
    {pf \in Platforms : /\ pf.None = Nil /\ pf.OpenStack = Nil
                        /\ pf.AWS \in {Nil, Ref(1)}
                        /\ pf.Libvirt \in {Nil, Ref(1)}}

StoredConfigs ==
    {[BaseConfig(ps) EXCEPT !.AWS = ps.platform.AWS,
                            !.Libvirt = ps.platform.Libvirt,
                            !.Machines = MachinePools(3, 3)] :
        ps \in {q \in Parents : q.platform \in StoredPlatforms}}

DiskContents == {Garbage} \cup {<<"yaml", c>> : c \in StoredConfigs}

\* What the directory holds under one name.
NotExist == [status |-> "notexist", Data |-> <<>>]
IOError == [status |-> "ioerror", Data |-> <<>>]
Present(d) == [status |-> "present", Data |-> d]

FetchStates == {NotExist, IOError} \cup {Present(d) : d \in DiskContents}

\* A file fetcher is determined by what its directory holds under the two
\* names.
Fetchers == [{installConfigFilename, deprecatedInstallConfigFilename} -> FetchStates]

\* asset.FileFetcher.FetchByName
FetchByName(f, name) ==
    CASE f[name].status = "present" ->
             [file |-> Ref([Filename |-> name, Data |-> f[name].Data]), err |-> Nil]
      [] f[name].status = "notexist" ->
             [file |-> Nil, err |-> ErrNotExist(name)]
      [] OTHER ->
             [file |-> Nil, err |-> ErrIO(name)]

DeprecationWarning(name, canonical) ==
    [level |-> "warning", msg |-> "Using deprecated file", used |-> name, instead |-> canonical]

\* The loop of fetchInstallConfigFile from index i on (i counts from 1; the
\* code's i != 0 is i # 1 here).  fetched lists the names handed to
\* FetchByName, warnings the log lines written.
RECURSIVE fetchLoop(_, _)

\* fetchLoop that goes on to the next name after any fetch error.
fetchLoop_anyError(f, i) ==
    IF i > Len(names) THEN
        [file |-> Nil, err |-> Nil, fetched |-> <<>>, warnings |-> <<>>]
    ELSE
        LET r == FetchByName(f, names[i]) IN
        IF r.err = Nil THEN
            [file |-> IF i # 1
                      THEN Ref([Deref(r.file) EXCEPT !.Filename = names[1]])
                      ELSE r.file,
             err |-> Nil,
             fetched |-> <<names[i]>>,
             warnings |-> IF i # 1
                          THEN <<DeprecationWarning(names[i], names[1])>>
                          ELSE <<>>]
        ELSE
            LET rest == fetchLoop(f, i + 1) IN
            [rest EXCEPT !.fetched = <<names[i]>> \o @]

\* fetchLoop that returns the deprecated file under its own name.
fetchLoop_noRename(f, i) ==
    IF i > Len(names) THEN
        [file |-> Nil, err |-> Nil, fetched |-> <<>>, warnings |-> <<>>]
    ELSE
        LET r == FetchByName(f, names[i]) IN
        IF r.err = Nil THEN
            [file |-> r.file,
             err |-> Nil,
             fetched |-> <<names[i]>>,
             warnings |-> IF i # 1
                          THEN <<DeprecationWarning(names[i], names[1])>>
                          ELSE <<>>]
        ELSE IF ~IsNotExist(r.err) THEN
            [file |-> Nil, err |-> r.err,
             fetched |-> <<names[i]>>, warnings |-> <<>>]
        ELSE
            LET rest == fetchLoop(f, i + 1) IN
            [rest EXCEPT !.fetched = <<names[i]>> \o @]

fetchLoop(f, i) ==
    IF i > Len(names) THEN
        [file |-> Nil, err |-> Nil, fetched |-> <<>>, warnings |-> <<>>]
    ELSE
        LET r == FetchByName(f, names[i]) IN
        IF r.err = Nil THEN
            [file |-> IF i # 1
                      THEN Ref([Deref(r.file) EXCEPT !.Filename = names[1]])
                      ELSE r.file,
             err |-> Nil,
             fetched |-> <<names[i]>>,
             warnings |-> IF i # 1
                          THEN <<DeprecationWarning(names[i], names[1])>>
                          ELSE <<>>]
        ELSE IF ~IsNotExist(r.err) THEN
            [file |-> Nil, err |-> r.err,
             fetched |-> <<names[i]>>, warnings |-> <<>>]
        ELSE
            LET rest == fetchLoop(f, i + 1) IN
            [rest EXCEPT !.fetched = <<names[i]>> \o @]

fetchInstallConfigFile(f) == fetchLoop(f, 1)

\* ------------------------------------------------------------------- state
VARIABLES
    a,          \* the InstallConfig asset: its Config and File pointers
    op,         \* the last method called on the asset
    outcome,    \* how that call ended: "return" or "panic"
    found,      \* the found result of the last Load
    err,        \* the error the last call returned
    parents,    \* the dependency values of the last Generate
    encodeErr,  \* the error yaml.Marshal had for the last Generate
    fetcher,    \* the file fetcher of the last Load
    fetched,    \* the names the last Load handed to FetchByName, in order
    warnings,   \* the log lines the last call wrote
    pre,        \* the asset as it was when the last call started
    succeeded   \* some Generate or Load has returned success

vars == <<a, op, outcome, found, err, parents, encodeErr, fetcher, fetched,
          warnings, pre, succeeded>>

\* &InstallConfig{}
NewInstallConfig == [Config |-> Nil, File |-> Nil]

NoParents ==
    [clusterID |-> "", sshPublicKey |-> "", baseDomain |-> "",
     clusterName |-> "", pullSecret |-> "",
     platform |-> [AWS |-> Nil, Libvirt |-> Nil, None |-> Nil, OpenStack |-> Nil]]

EmptyFetcher ==
    [n \in {installConfigFilename, deprecatedInstallConfigFilename} |-> NotExist]

Init ==
    /\ a = NewInstallConfig
    /\ op = "none"
    /\ outcome = "none"
    /\ found = FALSE
    /\ err = Nil
    /\ parents = NoParents
    /\ encodeErr = Nil
    /\ fetcher = EmptyFetcher
    /\ fetched = <<>>
    /\ warnings = <<>>
    /\ pre = NewInstallConfig
    /\ succeeded = FALSE

\* InstallConfig.Generate on asset x: the asset it leaves, how it ends and
\* what it returns.
GenerateResult(x, ps, mErr) ==
    LET sw == PlatformSwitch(BaseConfig(ps), ps.platform) IN
    IF sw.panicked THEN
        \* a.Config was assigned before the switch
        [a |-> [x EXCEPT !.Config = Ref(sw.Config)],
         outcome |-> "panic", err |-> Nil]
    ELSE
        LET config == [sw.Config EXCEPT
                          !.Machines = MachinePools(sw.numberOfMasters,
                                                    sw.numberOfWorkers)]
            m == Marshal(config, mErr)
        IN
        IF m.err # Nil THEN
            [a |-> [x EXCEPT !.Config = Ref(config)],
             outcome |-> "return",
             err |-> Wrapf(m.err, "failed to Marshal InstallConfig", "")]
        ELSE
            [a |-> [Config |-> Ref(config),
                    File |-> Ref([Filename |-> installConfigFilename,
                                  Data |-> m.data])],
             outcome |-> "return", err |-> Nil]

Generate(ps, mErr) ==
    LET r == GenerateResult(a, ps, mErr) IN
    /\ pre' = a
    /\ a' = r.a
    /\ op' = "Generate"
    /\ outcome' = r.outcome
    /\ err' = r.err
    /\ found' = FALSE
    /\ parents' = ps
    /\ encodeErr' = mErr
    /\ warnings' = <<>>
    /\ fetched' = <<>>
    /\ succeeded' = (succeeded \/ (r.outcome = "return" /\ r.err = Nil))
    /\ fetcher' = EmptyFetcher

\* LoadResult without the call of the validator.
LoadResult_noValidation(x, f) ==
    LET ff == fetchInstallConfigFile(f) IN
    IF ff.file = Nil THEN
        [a |-> x, found |-> FALSE, err |-> ff.err,
         fetched |-> ff.fetched, warnings |-> ff.warnings]
    ELSE
        LET u == Unmarshal(Deref(ff.file).Data) IN
        IF u.err # Nil THEN
            [a |-> x, found |-> FALSE,
             err |-> Wrapf(u.err, "failed to unmarshal", ""),
             fetched |-> ff.fetched, warnings |-> ff.warnings]
        ELSE
            [a |-> [File |-> ff.file, Config |-> Ref(u.config)],
             found |-> TRUE, err |-> Nil,
             fetched |-> ff.fetched, warnings |-> ff.warnings]

\* InstallConfig.Load on asset x with file fetcher f.
LoadResult(x, f) ==
    LET ff == fetchInstallConfigFile(f) IN
    IF ff.file = Nil THEN
        [a |-> x, found |-> FALSE, err |-> ff.err,
         fetched |-> ff.fetched, warnings |-> ff.warnings]
    ELSE
        LET u == Unmarshal(Deref(ff.file).Data) IN
        IF u.err # Nil THEN
            [a |-> x, found |-> FALSE,
             err |-> Wrapf(u.err, "failed to unmarshal", ""),
             fetched |-> ff.fetched, warnings |-> ff.warnings]
        ELSE
            LET v == ToAggregate(ValidateInstallConfig(u.config)) IN
            IF v # Nil THEN
                [a |-> x, found |-> FALSE,
                 err |-> Wrapf(v, "invalid %q file", installConfigFilename),
                 fetched |-> ff.fetched, warnings |-> ff.warnings]
            ELSE
                [a |-> [File |-> ff.file, Config |-> Ref(u.config)],
                 found |-> TRUE, err |-> Nil,
                 fetched |-> ff.fetched, warnings |-> ff.warnings]

Load(f) ==
    LET r == LoadResult(a, f) IN
    /\ pre' = a
    /\ a' = r.a
    /\ op' = "Load"
    /\ outcome' = "return"
    /\ found' = r.found
    /\ err' = r.err
    /\ fetcher' = f
    /\ fetched' = r.fetched
    /\ warnings' = r.warnings
    /\ succeeded' = (succeeded \/ r.found)
    /\ parents' = NoParents
    /\ encodeErr' = Nil

\* InstallConfig.Files
Files(x) == IF x.File # Nil THEN <<Deref(x.File)>> ELSE <<>>

Next ==
    \/ \E ps \in Parents, mErr \in EncodeErrs : Generate(ps, mErr)
    \/ \E f \in Fetchers : Load(f)

Spec == Init /\ [][Next]_vars

\* ================================================================= claims
\* The content the directory offers Load: the canonical file's if it is
\* there, the deprecated file's if the canonical one does not exist, none
\* otherwise.
Offered(f) ==
    IF f[installConfigFilename].status = "present"
    THEN Ref(f[installConfigFilename].Data)
    ELSE IF /\ f[installConfigFilename].status = "notexist"
            /\ f[deprecatedInstallConfigFilename].status = "present"
    THEN Ref(f[deprecatedInstallConfigFilename].Data)
    ELSE Nil

Parses(data) == Unmarshal(data).err = Nil
Accepted(data) ==
    Parses(data) /\ ValidateInstallConfig(Unmarshal(data).config) = <<>>

C2_PlatformDefaults ==
    (op = "Generate" /\ outcome = "return"
        /\ Cardinality(Populated(parents.platform)) = 1) =>
        LET c == Deref(a.Config) IN
        /\ Len(c.Machines) = 2
        /\ c.Machines[1].Name = "master"
        /\ c.Machines[2].Name = "worker"
        /\ IF Populated(parents.platform) = {"Libvirt"}
           THEN /\ c.Machines[1].Replicas = 1
                /\ c.Machines[2].Replicas = 1
                /\ c.Networking.MachineCIDR = libvirtDefaultMachineCIDR
           ELSE /\ c.Machines[1].Replicas = 3
                /\ c.Machines[2].Replicas = 3
                /\ c.Networking.MachineCIDR = "10.0.0.0/16"

C2_Witness ==
    /\ op = "Generate"
    /\ Populated(parents.platform) = {"Libvirt"}
    /\ outcome = "return"
    /\ err = Nil
    /\ Deref(a.Config).Machines[2].Replicas = 1

\* C3: Load fetches the canonical name first and the deprecated name only
\* after the canonical fetch reported not-exist.  With only the deprecated
\* file present, holding valid content, Load succeeds, the loaded file
\* carries the canonical name and a deprecation warning is logged.  With
\* both present the canonical content is the one used, the deprecated name
\* is never fetched and no warning is logged.
C3_CanonicalFirst ==
    op = "Load" =>
        /\ fetched \in {<<installConfigFilename>>,
                        <<installConfigFilename, deprecatedInstallConfigFilename>>}
        /\ (Len(fetched) = 2 => fetcher[installConfigFilename].status = "notexist")
        /\ (/\ fetcher[installConfigFilename].status = "notexist"
            /\ fetcher[deprecatedInstallConfigFilename].status = "present"
            /\ Accepted(fetcher[deprecatedInstallConfigFilename].Data)) =>
                /\ found /\ err = Nil
                /\ a.File = Ref([Filename |-> installConfigFilename,
                                 Data |-> fetcher[deprecatedInstallConfigFilename].Data])
                /\ warnings = <<DeprecationWarning(deprecatedInstallConfigFilename,
                                                   installConfigFilename)>>
        /\ (/\ fetcher[installConfigFilename].status = "present"
            /\ fetcher[deprecatedInstallConfigFilename].status = "present") =>
                /\ fetched = <<installConfigFilename>>
                /\ warnings = <<>>
                /\ found = Accepted(fetcher[installConfigFilename].Data)
                /\ found => a.File = Ref([Filename |-> installConfigFilename,
                                          Data |-> fetcher[installConfigFilename].Data])

C3_Witness ==
    /\ op = "Load"
    /\ fetcher[installConfigFilename].status = "notexist"
    /\ fetcher[deprecatedInstallConfigFilename].status = "present"
    /\ found
    /\ Len(fetched) = 2
    /\ warnings # <<>>

\* C4: Load returns found only if a file was found, its bytes parsed and
\* the validator returned no field error, and then the asset holds the
\* loaded File and Config.  When a file is found whose bytes do not parse
\* or whose verdict is not empty, Load returns an error and not found.
C4_ValidationNeverSkipped ==
    op = "Load" =>
        /\ found =>
            /\ Offered(fetcher) # Nil
            /\ Accepted(Deref(Offered(fetcher)))
            /\ err = Nil
            /\ a.File # Nil
            /\ Deref(a.File).Data = Deref(Offered(fetcher))
            /\ a.Config = Ref(Unmarshal(Deref(Offered(fetcher))).config)
        /\ (Offered(fetcher) # Nil /\ ~Accepted(Deref(Offered(fetcher)))) =>
            /\ ~found
            /\ err # Nil
            /\ a = pre

C4_Witness ==
    /\ op = "Load"
    /\ Offered(fetcher) # Nil
    /\ Parses(Deref(Offered(fetcher)))
    /\ ~Accepted(Deref(Offered(fetcher)))
    /\ ~found
    /\ err # Nil

\* C5: whenever Load fails on invalid content, unparseable bytes or a
\* config the validator rejects, the error names install-config.yaml.
C5_ErrorNamesCanonicalFile ==
    (op = "Load" /\ Offered(fetcher) # Nil /\ ~Accepted(Deref(Offered(fetcher)))) =>
        References(err, installConfigFilename)

\* C6: Load returns not found without an error exactly when both names are
\* reported as not existing.  Any other fetch error is returned as it is,
\* with found false, and such an error on the canonical name ends the
\* search before the deprecated name is fetched.
C6_NotFoundVersusError ==
    op = "Load" =>
        /\ (~found /\ err = Nil) <=>
               (/\ fetcher[installConfigFilename].status = "notexist"
                /\ fetcher[deprecatedInstallConfigFilename].status = "notexist")
        /\ fetcher[installConfigFilename].status = "ioerror" =>
               /\ ~found
               /\ err = ErrIO(installConfigFilename)
               /\ fetched = <<installConfigFilename>>
        /\ (/\ fetcher[installConfigFilename].status = "notexist"
            /\ fetcher[deprecatedInstallConfigFilename].status = "ioerror") =>
               /\ ~found
               /\ err = ErrIO(deprecatedInstallConfigFilename)

C6_Witness ==
    /\ op = "Load"
    /\ fetcher[installConfigFilename].status = "notexist"
    /\ fetcher[deprecatedInstallConfigFilename].status = "ioerror"
    /\ ~found
    /\ err # Nil
    /\ Len(fetched) = 2

\* C7: whenever Load or Generate returns an error, the asset's Config and
\* File are as they were before the call.
C7_NoPartialArtifact ==
    (op \in {"Generate", "Load"} /\ outcome = "return" /\ err # Nil) => a = pre

\* C8: Generate on a fresh asset with no platform variant populated panics,
\* and at the panic the asset holds no Config lacking a platform
\* sub-configuration and no File.
C8_NoPlatformPanicsClean ==
    (op = "Generate" /\ Populated(parents.platform) = {} /\ pre = NewInstallConfig) =>
        /\ outcome = "panic"
        /\ ~(a.Config # Nil /\ Populated(Deref(a.Config)) = {})
        /\ a.File = Nil

\* C9: Generate with more than one platform variant populated panics.
C9_SeveralPlatformsPanic ==
    (op = "Generate" /\ Cardinality(Populated(parents.platform)) > 1) =>
        outcome = "panic"

\* C10: Files returns no file while no Generate or Load has succeeded and
\* exactly one file once one has; that file is named install-config.yaml,
\* and a File is never present without a Config.
C10_FilesOfAsset ==
    /\ ~succeeded => Files(a) = <<>>
    /\ succeeded => Len(Files(a)) = 1
    /\ \A i \in 1..Len(Files(a)) : Files(a)[i].Filename = installConfigFilename
    /\ a.File # Nil => a.Config # Nil

C10_Witness ==
    /\ succeeded
    /\ op = "Load"
    /\ found
    /\ fetched = <<installConfigFilename, deprecatedInstallConfigFilename>>
    /\ Len(Files(a)) = 1
    /\ a.Config # Nil
====
